---- MODULE Spec2Model ----
(***************************************************************************)
(* GraspAndLiftEEGDetection (pl_bolts/datasets/grasp_and_lift_eeg_detection*)
(* .py): the dataset object, the CSV files and the .csv.bin cache files of *)
(* its split directory, and the operations __init__ (load_from_csv with    *)
(* compile_bin, or load_from_bin), __getitem__ and __len__.                *)
(*                                                                         *)
(* A tensor of shape [n, T] whose column t holds n copies of one number is *)
(* the record [n |-> n, cols |-> <<v_1, ..., v_T>>]; a CSV row with n      *)
(* fields after the row id, all holding v, is [n |-> n, v |-> v].          *)
(***************************************************************************)
EXTENDS Integers, Sequences, FiniteSets, TLC

VARIABLES
    csv,              \* the .csv files of the split directory: name -> [hdr, rows]
    bins,             \* the .csv.bin files of the split directory: name -> tensor
    num_samples,      \* self.num_samples
    last_label_only,  \* self.last_label_only
    X,                \* self.X
    Y,                \* self.Y
    total_examples,   \* self.total_examples
    examples,         \* the dict `examples` the loader built (its value when the loader ended)
    subjects,         \* the constructor's argument subjects
    series,           \* the constructor's argument series
    status,           \* "none": no constructor call yet; "ready": an object exists; "failed": __init__ raised
    error,            \* the exception __init__ raised ("" when none)
    path,             \* the branch of __init__ taken: "csv", "bin", or "none"
    ret               \* the outcome of the last __getitem__ / __len__ call on the object

vars == <<csv, bins, num_samples, last_label_only, X, Y, total_examples, examples,
          subjects, series, status, error, path, ret>>

-----------------------------------------------------------------------------
(* Bounds of the model *)

NumSubjects == 2
NumSeries == 2
MaxFiles == 3
MaxT == 4
WinLen == 3
MaxIndex == 4

(* Program constants *)

DataChannels == 32
EventChannels == 6
Float32Exact == 16777216

-----------------------------------------------------------------------------
(* Values *)

NoneInt == -1
Unset == -1000
NoTensor == [n |-> -1, cols |-> <<>>]
EmptyList == [n |-> 0, cols |-> <<>>]
NoneFilter == [k |-> "none", vals |-> {}, key |-> <<0, 0>>]
ListFilter(S) == [k |-> "list", vals |-> S, key |-> <<0, 0>>]
StrValue(key) == [k |-> "str", vals |-> {}, key |-> key]

Kinds == {"data", "events"}
Names == [subj : 1..NumSubjects, ser : 1..NumSeries, kind : Kinds]
KeyOf(f) == <<f.subj, f.ser>>
Channels(kind) == IF kind = "data" THEN DataChannels ELSE EventChannels

Max(a, b) == IF a >= b THEN a ELSE b
Min(a, b) == IF a <= b THEN a ELSE b

\* torch.Tensor(list of Python numbers): the default dtype is float32, which holds
\* every integer up to 2^24 exactly and rounds the next ones to the nearest even
\* multiple of its spacing (2 between 2^24 and 2^25).
Float32(v) ==
    IF v <= Float32Exact THEN v
    ELSE IF v % 2 = 0 THEN v
    ELSE IF (v + 1) % 4 = 0 THEN v + 1 ELSE v - 1

\* The characters of a key "subj<N>_series<M>" that decide its place under sorted():
\* the decimal digits of N, the underscore (above every digit in code order), the
\* digits of M.
Digits(n) == IF n < 10 THEN <<n>> ELSE <<n \div 10, n % 10>>
Underscore == 10
KeyChars(key) == Digits(key[1]) \o <<Underscore>> \o Digits(key[2])

RECURSIVE StrLess(_, _)
StrLess(a, b) ==
    IF b = <<>> THEN FALSE
    ELSE IF a = <<>> THEN TRUE
    ELSE IF Head(a) # Head(b) THEN Head(a) < Head(b)
    ELSE StrLess(Tail(a), Tail(b))

KeyLess(k1, k2) == StrLess(KeyChars(k1), KeyChars(k2))

\* sorted(examples): the keys in increasing string order
RECURSIVE Sorted(_)
Sorted(S) ==
    IF S = {} THEN <<>>
    ELSE LET m == CHOOSE k \in S : \A o \in S \ {k} : KeyLess(k, o)
         IN  <<m>> \o Sorted(S \ {m})

\* recursive_listdir: the files of a set, in any order
Orderings(S) ==
    {o \in [1..Cardinality(S) -> S] : \A a, b \in 1..Cardinality(S) : a # b => o[a] # o[b]}

\* examples.get(key, [None, None])
Get(ex, key) == IF key \in DOMAIN ex THEN ex[key] ELSE <<NoTensor, NoTensor>>

Put(ex, key, item) == [k \in DOMAIN ex \cup {key} |-> IF k = key THEN item ELSE ex[k]]

\* file -> tensor, with one more file
Save(disk, name, t) == [f \in DOMAIN disk \cup {name} |-> IF f = name THEN t ELSE disk[f]]

-----------------------------------------------------------------------------
(* The subject and series filters of the two loaders *)

\* lines 147-157 and 200-210: "skip", "load", or the exception raised
FilterFile(f, subj_filter, ser_filter) ==
    IF subj_filter.k # "none" /\ f.subj \notin subj_filter.vals THEN "skip"
    ELSE IF ser_filter.k = "none" THEN "load"
    ELSE IF ser_filter.k = "str" THEN "TypeError"
    ELSE IF f.ser \notin ser_filter.vals THEN "skip"
    ELSE "load"

-----------------------------------------------------------------------------
(* compile_bin *)

\* lines 211-228: one CSV file read into a tensor, or the exception raised.
\* torch.cat raises on an empty list and on columns of different heights.
ParseCsv(f, content) ==
    IF ~content.hdr THEN [err |-> "bad header", samples |-> NoTensor]
    ELSE IF content.rows = <<>> THEN [err |-> "RuntimeError", samples |-> NoTensor]
    ELSE IF \E t \in DOMAIN content.rows : content.rows[t].n # content.rows[1].n
         THEN [err |-> "RuntimeError", samples |-> NoTensor]
    ELSE [err |-> "",
          samples |-> [n |-> content.rows[1].n,
                       cols |-> [t \in DOMAIN content.rows |-> Float32(content.rows[t].v)]]]

\* lines 199-233: one iteration of the loop over csv_files. st holds the locals
\* examples, series (the parameter, reassigned at line 229) and samples.
CompileFile(st, f, files, subj_filter) ==
    LET go == FilterFile(f, subj_filter, st.series)
        p  == ParseCsv(f, files[f])
        old == Get(st.examples, KeyOf(f))
        item == IF f.kind = "data" THEN <<p.samples, old[2]>> ELSE <<old[1], p.samples>>
    IN  IF go = "skip" THEN st
        ELSE IF go = "TypeError" THEN [st EXCEPT !.err = "TypeError"]
        ELSE IF p.err # "" THEN [st EXCEPT !.err = p.err]
        ELSE [examples |-> Put(st.examples, KeyOf(f), item),
              series   |-> StrValue(KeyOf(f)),
              samples  |-> p.samples,
              err      |-> ""]

RECURSIVE CompileLoop(_, _, _, _, _)
CompileLoop(order, i, st, files, subj_filter) ==
    IF i > Len(order) \/ st.err # "" THEN st
    ELSE CompileLoop(order, i + 1, CompileFile(st, order[i], files, subj_filter), files, subj_filter)

\* lines 234-243: the loop over sorted(examples); acc holds X, Y and the cache files
RECURSIVE SaveLoop(_, _, _, _, _)
SaveLoop(keys, i, ex, samples, acc) ==
    IF i > Len(keys) THEN acc
    ELSE LET key == keys[i]
             x == ex[key][1]
             y == ex[key][2]
             d1 == Save(acc.bins, [subj |-> key[1], ser |-> key[2], kind |-> "data"], samples)
         IN  SaveLoop(keys, i + 1, ex, samples,
                 IF y = NoTensor
                 THEN [X |-> Append(acc.X, x), Y |-> acc.Y, bins |-> d1]
                 ELSE [X |-> Append(acc.X, x), Y |-> Append(acc.Y, y),
                       bins |-> Save(d1, [subj |-> key[1], ser |-> key[2], kind |-> "events"], samples)])

\* compile_bin with an error path that removes the cache files
CompileBinUnlink(order, files, disk, subj_filter, ser_filter) ==
    LET st == CompileLoop(order, 1,
                  [examples |-> <<>>, series |-> ser_filter, samples |-> NoTensor, err |-> ""],
                  files, subj_filter)
        out == SaveLoop(Sorted(DOMAIN st.examples), 1, st.examples, st.samples,
                  [X |-> <<>>, Y |-> <<>>, bins |-> disk])
    IN  IF st.err # ""
        THEN [err |-> st.err, X |-> <<>>, Y |-> <<>>, bins |-> <<>>, examples |-> st.examples]
        ELSE [err |-> "", X |-> out.X, Y |-> out.Y, bins |-> out.bins, examples |-> st.examples]

\* lines 195-243. Y = None is the empty sequence: a Y that is a list is never empty.
CompileBin(order, files, disk, subj_filter, ser_filter) ==
    LET st == CompileLoop(order, 1,
                  [examples |-> <<>>, series |-> ser_filter, samples |-> NoTensor, err |-> ""],
                  files, subj_filter)
        out == SaveLoop(Sorted(DOMAIN st.examples), 1, st.examples, st.samples,
                  [X |-> <<>>, Y |-> <<>>, bins |-> disk])
    IN  IF st.err # ""
        THEN [err |-> st.err, X |-> <<>>, Y |-> <<>>, bins |-> disk, examples |-> st.examples]
        ELSE [err |-> "", X |-> out.X, Y |-> out.Y, bins |-> out.bins, examples |-> st.examples]

\* lines 137-139: the sum of x.shape[1] - num_samples + 1 over self.X
RECURSIVE CountWindows(_, _, _)
CountWindows(xs, i, w) ==
    IF i > Len(xs) THEN 0
    ELSE Len(xs[i].cols) - w + 1 + CountWindows(xs, i + 1, w)

\* lines 131-139
LoadFromCsv(order, files, disk, subj_filter, ser_filter, w) ==
    LET c == CompileBin(order, files, disk, subj_filter, ser_filter)
    IN  IF c.err # "" THEN c @@ [total |-> Unset]
        ELSE IF w = NoneInt THEN c @@ [total |-> Unset]
        ELSE IF \E i \in DOMAIN c.X : c.X[i] = NoTensor
             THEN [c EXCEPT !.err = "AttributeError"] @@ [total |-> Unset]
        ELSE c @@ [total |-> CountWindows(c.X, 1, w)]

-----------------------------------------------------------------------------
(* load_from_bin *)

\* lines 146-165: one iteration of the loop over bin_files
LoadFile(st, f, disk, subj_filter, ser_filter, w) ==
    LET samples == disk[f]
        old == Get(st.examples, KeyOf(f))
        item == IF f.kind = "data" THEN <<samples, old[2]>> ELSE <<old[1], samples>>
    IN  IF FilterFile(f, subj_filter, ser_filter) # "load" THEN st
        ELSE [examples |-> Put(st.examples, KeyOf(f), item),
              total |-> IF f.kind = "data" /\ w # NoneInt
                        THEN st.total + (Len(samples.cols) - w + 1)
                        ELSE st.total]

RECURSIVE LoadLoop(_, _, _, _, _, _, _)
LoadLoop(order, i, st, disk, subj_filter, ser_filter, w) ==
    IF i > Len(order) THEN st
    ELSE LoadLoop(order, i + 1, LoadFile(st, order[i], disk, subj_filter, ser_filter, w),
                  disk, subj_filter, ser_filter, w)

\* lines 166-173: X and Y from sorted(examples)
RECURSIVE Collect(_, _, _, _)
Collect(keys, i, ex, acc) ==
    IF i > Len(keys) THEN acc
    ELSE Collect(keys, i + 1, ex,
             [X |-> Append(acc.X, ex[keys[i]][1]),
              Y |-> IF ex[keys[i]][2] = NoTensor THEN acc.Y ELSE Append(acc.Y, ex[keys[i]][2])])

\* lines 141-173
LoadFromBin(order, disk, subj_filter, ser_filter, w) ==
    LET st == LoadLoop(order, 1, [examples |-> <<>>, total |-> 0], disk, subj_filter, ser_filter, w)
        out == Collect(Sorted(DOMAIN st.examples), 1, st.examples, [X |-> <<>>, Y |-> <<>>])
    IN  [err |-> "", X |-> out.X, Y |-> out.Y, bins |-> disk, examples |-> st.examples,
         total |-> st.total]

\* line 120 with <= for <
ShouldCompileLeq(bin_files, csv_files) == Cardinality(bin_files) <= Cardinality(csv_files)

\* line 120
ShouldCompile(bin_files, csv_files) == Cardinality(bin_files) < Cardinality(csv_files)

-----------------------------------------------------------------------------
(* __getitem__ and __len__ *)

NoRet == [op |-> "none", index |-> 0, out |-> "", err |-> "", x |-> NoTensor, y |-> NoTensor,
          i |-> 0, j |-> 0, n |-> 0]
Raise(index, e) == [NoRet EXCEPT !.op = "getitem", !.index = index, !.out = "raise", !.err = e]
Return(index, x, y, i, j) ==
    [NoRet EXCEPT !.op = "getitem", !.index = index, !.out = "ok", !.x = x, !.y = y, !.i = i, !.j = j]

\* t[:, a:b] of Python: negative bounds count from the end, and both are clipped
PySlice(t, a, b) ==
    LET len == Len(t.cols)
        lo == IF a < 0 THEN Max(0, len + a) ELSE Min(a, len)
        hi == IF b < 0 THEN Max(0, len + b) ELSE Min(b, len)
    IN  [n |-> t.n, cols |-> IF lo < hi THEN SubSeq(t.cols, lo + 1, hi) ELSE <<>>]

\* The 1-based position that Python's s[k] reads in a sequence of length len,
\* or 0 when it raises IndexError
PyIndex(len, k) ==
    IF 0 <= k /\ k < len THEN k + 1
    ELSE IF -len <= k /\ k < 0 THEN len + k + 1
    ELSE 0

\* lines 246-248: no windowing
GetWhole(xs, ys, index) ==
    LET px == PyIndex(Len(xs), index)
        py == PyIndex(Len(ys), index)
    IN  IF px = 0 THEN Raise(index, "IndexError")
        ELSE IF ys = <<>> THEN Return(index, xs[px], EmptyList, px - 1, 0)
        ELSE IF py = 0 THEN Raise(index, "IndexError")
        ELSE Return(index, xs[px], ys[py], px - 1, 0)

\* lines 256-267: the window at offset j of the series at position i (1-based here)
Window(xs, ys, w, llo, index, i, j) ==
    LET x == PySlice(xs[i], j, j + w)
        k == IF i <= Len(ys) THEN PyIndex(Len(ys[i].cols), j + w - 1) ELSE 0
    IN  IF ys = <<>> THEN Return(index, x, EmptyList, i - 1, j)
        ELSE IF i > Len(ys) THEN Raise(index, "IndexError")
        ELSE IF ~llo THEN Return(index, x, PySlice(ys[i], j, j + w), i - 1, j)
        ELSE IF k = 0 THEN Raise(index, "IndexError")
        ELSE Return(index, x, [n |-> ys[i].n, cols |-> <<ys[i].cols[k]>>], i - 1, j)

\* lines 250-268: the search for the series that owns the index
RECURSIVE Seek(_, _, _, _, _, _, _)
Seek(xs, ys, w, llo, index, i, ofs) ==
    IF i > Len(xs) THEN Raise(index, "unable to seek")
    ELSE IF xs[i] = NoTensor THEN Raise(index, "AttributeError")
    ELSE LET num_examples == Len(xs[i].cols) - w + 1
         IN  IF index >= ofs + num_examples
             THEN Seek(xs, ys, w, llo, index, i + 1, ofs + num_examples)
             ELSE Window(xs, ys, w, llo, index, i, index - ofs)

\* lines 245-268
GetItemOf(xs, ys, w, llo, index) ==
    IF w = NoneInt THEN GetWhole(xs, ys, index) ELSE Seek(xs, ys, w, llo, index, 1, 0)

\* lines 270-275
LenOf(xs, w, total) == IF w = NoneInt THEN Len(xs) ELSE total

-----------------------------------------------------------------------------
(* The split directory before the first constructor call: up to MaxFiles CSV
   files, each series 1 or MaxT rows long, either all well-formed or with one
   file off the schema; and either no cache file or, for every file that parses,
   the cache file holding its parsed array (what an earlier compilation of that
   file alone writes: the constructor takes the cache files as it finds them). *)

\* The number in the row t of a file: every cell of the directory is different, and
\* the data cells of the subjects after the first lie above 2^24
CellValue(f, t) ==
    (IF f.kind = "data" THEN (f.subj - 1) * Float32Exact ELSE 0)
    + 1000 * f.subj + 100 * f.ser + (IF f.kind = "data" THEN 0 ELSE 50) + t

GoodRows(f, len) == [t \in 1..len |-> [n |-> Channels(f.kind), v |-> CellValue(f, t)]]
\* every row one field short
ShortRows(f, len) == [t \in 1..len |-> [n |-> Channels(f.kind) - 1, v |-> CellValue(f, t)]]
\* the last row one field short
MixedRows(f, len) ==
    [t \in 1..len |-> [n |-> IF t = len THEN Channels(f.kind) - 1 ELSE Channels(f.kind),
                       v |-> CellValue(f, t)]]

Lengths == {1, MaxT}
FileSets == {S \in SUBSET Names : 1 <= Cardinality(S) /\ Cardinality(S) <= MaxFiles}
Keys == (1..NumSubjects) \X (1..NumSeries)

\* well-formed files; the two files of a series have the same number of rows
GoodDirs ==
    UNION {{[f \in S |-> [hdr |-> TRUE, rows |-> GoodRows(f, len[KeyOf(f)])]] :
            len \in [{KeyOf(f) : f \in S} -> Lengths]} : S \in FileSets}

Defects(f) ==
    {[hdr |-> FALSE, rows |-> GoodRows(f, 2)],
     [hdr |-> TRUE, rows |-> ShortRows(f, 2)],
     [hdr |-> TRUE, rows |-> MixedRows(f, 2)]}

\* one file with a wrong header or a wrong field count among well-formed ones
BadDirs ==
    UNION {UNION {{[f \in S |-> IF f = b THEN d ELSE [hdr |-> TRUE, rows |-> GoodRows(f, 2)]] :
                   d \in Defects(b)} : b \in S} : S \in {S \in FileSets : Cardinality(S) < MaxFiles}}

\* the cache an earlier compilation of the well-formed files left
Cached(files) ==
    LET ok == {f \in DOMAIN files : ParseCsv(f, files[f]).err = ""}
    IN  [f \in ok |-> ParseCsv(f, files[f]).samples]

Init ==
    /\ csv \in GoodDirs \cup BadDirs
    /\ bins \in {<<>>, Cached(csv)}
    /\ num_samples = NoneInt
    /\ last_label_only = FALSE
    /\ X = <<>>
    /\ Y = <<>>
    /\ total_examples = Unset
    /\ examples = <<>>
    /\ subjects = NoneFilter
    /\ series = NoneFilter
    /\ status = "none"
    /\ error = ""
    /\ path = "none"
    /\ ret = NoRet

-----------------------------------------------------------------------------
(* The operations. A constructor call reads the directory and its arguments
   only, never the outcome of an earlier __getitem__ / __len__ call, so the
   constructor actions are taken from the states where ret is clear: the same
   states are reached, with fewer repeated steps. *)

\* an argument subjects or series: None, or the list [1]
Filters == {NoneFilter, ListFilter({1})}
Windows == {NoneInt, WinLen}

Fail(e, p, disk, ex, subj_filter, ser_filter) ==
    /\ status' = "failed"
    /\ error' = e
    /\ path' = p
    /\ bins' = disk
    /\ examples' = ex
    /\ subjects' = subj_filter
    /\ series' = ser_filter
    /\ num_samples' = NoneInt
    /\ last_label_only' = FALSE
    /\ X' = <<>>
    /\ Y' = <<>>
    /\ total_examples' = Unset
    /\ ret' = NoRet
    /\ UNCHANGED csv

Loaded(r, p, w, llo, subj_filter, ser_filter) ==
    IF r.err # "" THEN Fail(r.err, p, r.bins, r.examples, subj_filter, ser_filter)
    ELSE /\ status' = "ready"
         /\ error' = ""
         /\ path' = p
         /\ bins' = r.bins
         /\ examples' = r.examples
         /\ subjects' = subj_filter
         /\ series' = ser_filter
         /\ num_samples' = w
         /\ last_label_only' = llo
         /\ X' = r.X
         /\ Y' = r.Y
         /\ total_examples' = r.total
         /\ ret' = NoRet
         /\ UNCHANGED csv

\* lines 105-106: last_label_only without num_samples
ConstructRejected ==
    /\ ret = NoRet
    /\ \E subj_filter \in Filters, ser_filter \in Filters :
        Fail("ValueError", "none", bins, <<>>, subj_filter, ser_filter)

\* lines 107-127: fewer .csv.bin files than .csv files
ConstructFromCsv ==
    \E w \in Windows, llo \in BOOLEAN,
       subj_filter \in Filters, ser_filter \in Filters :
        /\ ret = NoRet
        /\ ~(w = NoneInt /\ llo)
        /\ ShouldCompile(DOMAIN bins, DOMAIN csv)
        /\ \E csv_files \in Orderings(DOMAIN csv) :
              Loaded(LoadFromCsv(csv_files, csv, bins, subj_filter, ser_filter, w),
                     "csv", w, llo, subj_filter, ser_filter)

\* lines 107-120, 128-129: at least as many .csv.bin files as .csv files
ConstructFromBin ==
    \E w \in Windows, llo \in BOOLEAN,
       subj_filter \in Filters, ser_filter \in Filters :
        /\ ret = NoRet
        /\ ~(w = NoneInt /\ llo)
        /\ ~ShouldCompile(DOMAIN bins, DOMAIN csv)
        /\ \E bin_files \in Orderings(DOMAIN bins) :
              Loaded(LoadFromBin(bin_files, bins, subj_filter, ser_filter, w),
                     "bin", w, llo, subj_filter, ser_filter)

GetItem ==
    /\ status = "ready"
    /\ \E index \in -1..MaxIndex :
          ret' = GetItemOf(X, Y, num_samples, last_label_only, index)
    /\ UNCHANGED <<csv, bins, num_samples, last_label_only, X, Y, total_examples, examples,
                   subjects, series, status, error, path>>

GetLen ==
    /\ status = "ready"
    /\ ret' = [NoRet EXCEPT !.op = "len", !.out = "ok",
                            !.n = LenOf(X, num_samples, total_examples)]
    /\ UNCHANGED <<csv, bins, num_samples, last_label_only, X, Y, total_examples, examples,
                   subjects, series, status, error, path>>

Next ==
    \/ ConstructRejected
    \/ ConstructFromCsv
    \/ ConstructFromBin
    \/ GetItem
    \/ GetLen

Spec == Init /\ [][Next]_vars

-----------------------------------------------------------------------------
(* Vocabulary of the properties *)

Ready == status = "ready"
Windowed == num_samples # NoneInt
Length == LenOf(X, num_samples, total_examples)

\* the series identifiers in the order of self.X (the loaders append in this order)
SeriesKeys == Sorted(DOMAIN examples)

\* every position of self.X holds a data array
AllData == \A i \in DOMAIN X : X[i] # NoTensor

\* every series is at least one window long
NoShort == \A i \in DOMAIN X : Len(X[i].cols) >= num_samples

\* the (series, offset) pair an index resolves to: the search of __getitem__ alone
Resolve(g) == GetItemOf(X, <<>>, num_samples, FALSE, g)

\* the windows of the included series: (position in self.X from 0, offset)
Pairs == {p \in (0..Len(X) - 1) \X (0..MaxT) : p[2] < Len(X[p[1] + 1].cols) - num_samples + 1}

RECURSIVE ClampedSum(_, _, _)
ClampedSum(xs, i, w) ==
    IF i > Len(xs) THEN 0
    ELSE Max(0, Len(xs[i].cols) - w + 1) + ClampedSum(xs, i + 1, w)

\* the filter as documented: None is no restriction
Matches(f, subj_filter, ser_filter) ==
    /\ subj_filter.k = "none" \/ f.subj \in subj_filter.vals
    /\ ser_filter.k = "none" \/ f.ser \in ser_filter.vals

\* the file's array is in the loader's dict
IsLoaded(f) ==
    /\ KeyOf(f) \in DOMAIN examples
    /\ examples[KeyOf(f)][IF f.kind = "data" THEN 1 ELSE 2] # NoTensor

\* the files the last constructor call listed
Listed == IF path = "csv" THEN DOMAIN csv ELSE DOMAIN bins

\* the events array of the series at position i (from 0) of self.X, NoTensor if it has none
EventsAt(i) == examples[SeriesKeys[i + 1]][2]

\* a step of the constructor: the only steps that clear ret
Constructed == ret' = NoRet

-----------------------------------------------------------------------------
(* C1: with a window length set, the indices 0 .. length()-1 resolve to the
   pairs (series, offset) with 0 <= offset < T - W + 1, each pair exactly once,
   and the data returned for a pair is the window X[series][:, offset:offset+W]. *)
C1_LookupCoversWindows ==
    (Ready /\ Windowed /\ AllData) =>
        /\ \A g \in 0..Length - 1 :
              /\ Resolve(g).out = "ok"
              /\ <<Resolve(g).i, Resolve(g).j>> \in Pairs
              /\ Resolve(g).x = PySlice(X[Resolve(g).i + 1], Resolve(g).j, Resolve(g).j + num_samples)
        /\ \A g, h \in 0..Length - 1 :
              g # h => <<Resolve(g).i, Resolve(g).j>> # <<Resolve(h).i, Resolve(h).j>>
        /\ \A p \in Pairs : \E g \in 0..Length - 1 : <<Resolve(g).i, Resolve(g).j>> = p

(* C2: with a window length set, length() is the sum over the included series of
   max(0, T - W + 1), on the CSV path and on the cache path. *)
C2_LengthIsClampedSum ==
    (Ready /\ Windowed /\ AllData) => Length = ClampedSum(X, 1, num_samples)

(* C3: __getitem__ raises for every index outside [0, length()). *)
C3_OutOfRangeRaises ==
    (Ready /\ ret.op = "getitem" /\ (ret.index < 0 \/ ret.index >= Length)) => ret.out = "raise"

(* C4: on both load paths, over well-formed files, a listed file is loaded if and
   only if it passes the subject and series filters, None standing for no
   restriction at every file of the list (so no file makes the filter raise). *)
C4_FiltersSelectExactly ==
    csv \in GoodDirs =>
        /\ error # "TypeError"
        /\ Ready => \A f \in Listed : IsLoaded(f) <=> Matches(f, subjects, series)

(* C5: after a compilation, a construction over the same files that takes the
   cache path yields the series list, labels and length of the CSV path, and each
   cache file holds the array parsed from its own CSV file. *)
C5_CompileThenLoadParity ==
    (Ready /\ path = "csv" /\ ~ShouldCompile(DOMAIN bins, DOMAIN csv)) =>
        /\ \A bin_files \in Orderings(DOMAIN bins) :
              LET r == LoadFromBin(bin_files, bins, subjects, series, num_samples)
              IN  /\ r.X = X
                  /\ r.Y = Y
                  /\ LenOf(r.X, num_samples, r.total) = Length
        /\ \A f \in DOMAIN csv : IsLoaded(f) => bins[f] = ParseCsv(f, csv[f]).samples

(* C6: with a window length W and every series at least W long, for a valid index that resolves to (series, offset)
   of a series that has an events array, __getitem__ returns the events at time
   offset + W - 1 alone when last_label_only is set, and the events window
   [offset, offset + W) when it is not. *)
C6_LastLabelOfWindow ==
    (/\ Ready /\ Windowed /\ AllData /\ NoShort
     /\ ret.op = "getitem" /\ 0 <= ret.index /\ ret.index < Length
     /\ Resolve(ret.index).out = "ok"
     /\ EventsAt(Resolve(ret.index).i) # NoTensor) =>
        LET j == Resolve(ret.index).j
            E == EventsAt(Resolve(ret.index).i)
        IN  /\ ret.out = "ok"
            /\ last_label_only =>
                  /\ j + num_samples <= Len(E.cols)
                  /\ ret.y = [n |-> E.n, cols |-> <<E.cols[j + num_samples]>>]
            /\ ~last_label_only => ret.y = PySlice(E, j, j + num_samples)

(* C7: a compilation whose files to load all have a wrong header ends with the
   header error; no file with a wrong header is ever accepted; and a constructor
   call that ends with the header error leaves every cache file as it was. *)
C7_BadHeaderKeepsCaches ==
    /\ []((/\ path = "csv"
           /\ \E f \in DOMAIN csv : Matches(f, subjects, series)
           /\ \A f \in DOMAIN csv : Matches(f, subjects, series) => ~csv[f].hdr)
          => (status = "failed" /\ error = "bad header"))
    /\ [](Ready /\ path = "csv" => \A f \in DOMAIN csv : IsLoaded(f) => csv[f].hdr)
    /\ [][(Constructed /\ error' = "bad header") => bins' = bins]_vars

C7_Witness ==
    /\ status = "failed"
    /\ error = "bad header"
    /\ \E f \in DOMAIN csv, b \in DOMAIN bins : ~csv[f].hdr /\ KeyOf(b) # KeyOf(f)

(* C8: no series is registered from a file with a row whose field count is not
   the channel count of the file's kind. *)
C8_RowCountChecked ==
    (Ready /\ path = "csv") =>
        \A f \in DOMAIN csv :
            IsLoaded(f) => \A t \in DOMAIN csv[f].rows : csv[f].rows[t].n = Channels(f.kind)

(* C9 as stated: the cache loader is used only when every CSV file has its
   .csv.bin file. *)
C9_LoaderOnlyWhenEveryCsvCached ==
    path = "bin" => \A f \in DOMAIN csv : f \in DOMAIN bins

(* C9 as amended: the constructor compiles exactly when there are fewer .csv.bin
   files than .csv files, and loads the cache otherwise. *)
C9_CompilesIffFewerBins ==
    [][(Constructed /\ path' # "none") =>
          (path' = "csv" <=> Cardinality(DOMAIN bins) < Cardinality(DOMAIN csv))]_vars

C9_Witness ==
    /\ Ready
    /\ path = "bin"
    /\ \E f \in DOMAIN csv : f \notin DOMAIN bins

(* C10: the labels __getitem__ returns with data of the series at position i
   are taken from the events array of that same series. *)
C10_LabelsOfSameSeries ==
    (Ready /\ AllData /\ ret.op = "getitem" /\ ret.out = "ok" /\ ret.index >= 0
     /\ ret.y # EmptyList) =>
        LET E == EventsAt(ret.i)
        IN  /\ E # NoTensor
            /\ ret.y = IF ~Windowed THEN E
                       ELSE IF last_label_only
                            THEN [n |-> E.n, cols |-> <<E.cols[PyIndex(Len(E.cols), ret.j + num_samples - 1)]>>]
                            ELSE PySlice(E, ret.j, ret.j + num_samples)

====
